---- MODULE Spec2Model ----
(***************************************************************************)
(* The ERC20-style token actor of src/src/lib.rs as a state machine.       *)
(*                                                                         *)
(* The host holds one state root per actor (sself::root / set_root).  A    *)
(* root is the CID of the serialized State tuple, which holds the CID of   *)
(* the balances HAMT.  CIDs are content addresses: a CID is modelled as a  *)
(* record wrapping the block it hashes, and Blockstore get returns that    *)
(* block.  The host (blockstore, HAMT, address resolution) is taken to be  *)
(* reliable, so the Err branches of the host calls are not taken; every    *)
(* abort the actor's own logic decides is modelled.                        *)
(*                                                                         *)
(* Calls run to completion, one at a time: each action is one whole        *)
(* invoke() of the actor, and `last` records the call that just ended.     *)
(***************************************************************************)
EXTENDS Integers, Sequences, FiniteSets, TLC

VARIABLES
    root,   \* the host's state root of this actor: <<>> unset, <<cid>> set
    last    \* the call that ended last: inputs, root before, exit code, host calls

vars == <<root, last>>

----------------------------------------------------------------------------
(* Bounds of the model *)

\* amounts of TransferParams range over -MaxAmount..MaxAmount (TokenAmount is a signed BigInt)
MaxAmount == 2
\* calls whose committed balances would leave -MaxBal..MaxBal are not explored
MaxBal == 2

----------------------------------------------------------------------------
(* Program constants and the input universe *)

INIT_ACTOR_ADDR == 1

\* ActorID of the callers: the init actor and two accounts
ActorIDs == {INIT_ACTOR_ADDR, 100, 101}

\* Address: protocol 0 is an ID address (payload = ActorID), protocol 1 a key
\* address (payload = key) the host may or may not know.
IdAddr(id) == [protocol |-> 0, payload |-> id]
KeyAddr(k) == [protocol |-> 1, payload |-> k]
Addresses == {IdAddr(100), KeyAddr(7), KeyAddr(9)}

Amounts == (0 - MaxAmount)..MaxAmount

\* two tokens, one with a supply cap of 1 and one with a cap of 0, for each owner
ConstructorParamsSet ==
    {[name |-> "Tok", symbol |-> "TOK", max_supply |-> 1, owner |-> o] : o \in Addresses}
    \cup
    {[name |-> "Tik", symbol |-> "TIK", max_supply |-> 0, owner |-> o] : o \in Addresses}

TransferParamsSet == [recipient : Addresses, amount : Amounts]

\* a parameter block that does not decode
BadParams == [malformed |-> TRUE]

\* Option values
None == <<>>
Some(x) == <<x>>

----------------------------------------------------------------------------
(* Host services *)

\* fvm_sdk::actor::resolve_address: an ID address is its id, key 7 is the
\* key of account 101, key 9 is known to no actor.
resolve_address(addr) ==
    IF addr.protocol = 0 THEN Some(addr.payload)
    ELSE IF addr.payload = 7 THEN Some(101)
    ELSE None

\* content addressing: put returns the CID of the block, get the block of the CID
Cid(block) == [hash |-> block]
BlockGet(cid) == cid.hash

\* Hamt<Blockstore, BigIntDe, ActorID>: a finite map ActorID -> Int
HamtNew == [k \in {} |-> 0]
HamtFlush(map) == Cid(map)
HamtLoad(cid) == BlockGet(cid)
HamtGet(map, k) == IF k \in DOMAIN map THEN Some(map[k]) ELSE None
\* a set that drops the other entries of the map, and one that does not insert
\* a zero for an absent key
HamtSet_Only(map, k, v) == [x \in {k} |-> v]
HamtSet_SkipZero(map, k, v) ==
    IF v = 0 /\ k \notin DOMAIN map THEN map
    ELSE [x \in (DOMAIN map) \cup {k} |-> IF x = k THEN v ELSE map[x]]
HamtSet(map, k, v) == [x \in (DOMAIN map) \cup {k} |-> IF x = k THEN v ELSE map[x]]

----------------------------------------------------------------------------
(* State: the tuple-serialized state object *)

\* Serialize_tuple / Deserialize_tuple of State
\* a serialization with name and symbol in the wrong order
Serialize_FieldOrder(state) ==
    <<state.symbol, state.name, state.max_supply, state.owner, state.balances>>
Serialize(state) ==
    <<state.name, state.symbol, state.max_supply, state.owner, state.balances>>
Deserialize(t) ==
    [name |-> t[1], symbol |-> t[2], max_supply |-> t[3], owner |-> t[4], balances |-> t[5]]

\* the outcome of a call: exit code, the host's root after it, the host calls made
Outcome(code, rt, eff) == [code |-> code, root |-> rt, effects |-> eff]

\* a load that answers an unset root with an empty default state
State_load_Default(rt) ==
    IF rt = None
    THEN Some([name |-> "", symbol |-> "", max_supply |-> 0,
               owner |-> IdAddr(INIT_ACTOR_ADDR), balances |-> Cid(HamtNew)])
    ELSE Some(Deserialize(BlockGet(rt[1])))

\* State::load: the state behind the root, or none
State_load(rt) ==
    IF rt = None THEN None ELSE Some(Deserialize(BlockGet(rt[1])))

\* State::new
State_new(p) ==
    [name |-> p.name, symbol |-> p.symbol, max_supply |-> p.max_supply,
     owner |-> p.owner, balances |-> HamtFlush(HamtNew)]

\* State::save: the root the host holds after it
State_save(state) == Some(Cid(Serialize(state)))

----------------------------------------------------------------------------
(* The handlers.  Each returns the Outcome of the call made by `caller`    *)
(* with decoded parameters `params` on an actor whose root is `pre`.       *)

\* a constructor that saves the state before it checks the caller
constructor_SaveFirst(caller, params, pre) ==
    IF caller # INIT_ACTOR_ADDR
    THEN Outcome("USR_FORBIDDEN", State_save(State_new(params)),
                 <<"Hamt::new", "Hamt::flush", "ipld::put", "sself::set_root", "caller">>)
    ELSE Outcome("OK", State_save(State_new(params)),
                 <<"Hamt::new", "Hamt::flush", "ipld::put", "sself::set_root", "caller">>)

\* a constructor without the caller check
constructor_NoCheck(caller, params, pre) ==
    Outcome("OK", State_save(State_new(params)),
            <<"Hamt::new", "Hamt::flush", "ipld::put", "sself::set_root">>)

\* a constructor that refuses an actor that already has a state
constructor_Once(caller, params, pre) ==
    IF caller # INIT_ACTOR_ADDR
    THEN Outcome("USR_FORBIDDEN", pre, <<"caller">>)
    ELSE IF pre # None
    THEN Outcome("USR_ILLEGAL_STATE", pre, <<"caller", "sself::root">>)
    ELSE Outcome("OK", State_save(State_new(params)),
                 <<"caller", "Hamt::new", "Hamt::flush", "ipld::put", "sself::set_root">>)

\* constructor: only the init actor may construct; no other guard
constructor(caller, params, pre) ==
    IF caller # INIT_ACTOR_ADDR
    THEN Outcome("USR_FORBIDDEN", pre, <<"caller">>)
    ELSE Outcome("OK", State_save(State_new(params)),
                 <<"caller", "Hamt::new", "Hamt::flush", "ipld::put", "sself::set_root">>)

\* an authorization test against the init actor instead of the owner
NotOwner_Init(owner_id, caller) == caller # INIT_ACTOR_ADDR

\* mint's authorization test: the resolved owner is not the caller
NotOwner(owner_id, caller) == owner_id # caller

\* mint: loads the state, checks the owner, loads the balances HAMT and returns
mint(caller, params, pre) ==
    LET ld == State_load(pre) IN
    IF ld = None
    THEN Outcome("USR_ILLEGAL_STATE", pre, <<"sself::root">>)
    ELSE
    LET state == ld[1]
        owner == resolve_address(state.owner)
    IN
    IF owner = None
    THEN Outcome("USR_ILLEGAL_ARGUMENT", pre,
                 <<"sself::root", "get_cbor", "resolve_address">>)
    ELSE IF NotOwner(owner[1], caller)
    THEN Outcome("USR_FORBIDDEN", pre,
                 <<"sself::root", "get_cbor", "resolve_address", "caller">>)
    ELSE Outcome("OK", pre,
                 <<"sself::root", "get_cbor", "resolve_address", "caller", "Hamt::load">>)

\* faulty variants of transfer's tests and arithmetic: the comparison reversed,
\* the self-send test missing, the debit forgotten, the credit overwriting
InsufficientBalance_Reversed(sender_bal, amount) == amount < sender_bal
SendToSelf_Never(sender_id, recipient_id) == FALSE
SenderBalAfter_NoDebit(sender_bal, amount) == sender_bal
RecipientBalAfter_Overwrite(recipient_bal, amount) == amount

\* transfer's tests and arithmetic
InsufficientBalance(sender_bal, amount) == sender_bal < amount
SendToSelf(sender_id, recipient_id) == sender_id = recipient_id
SenderBalAfter(sender_bal, amount) == sender_bal - amount
RecipientBalAfter(recipient_bal, amount) == recipient_bal + amount

\* a balance read: an absent key reads as zero
BalanceOrZero(map, id) ==
    LET got == HamtGet(map, id) IN IF got = None THEN 0 ELSE got[1]

\* a transfer that commits the state root right after the sender's write, so
\* that the recipient's write is in no committed map
transfer_EarlySetRoot(caller, params, pre) ==
    LET ld == State_load(pre) IN
    IF ld = None
    THEN Outcome("USR_ILLEGAL_STATE", pre, <<"sself::root">>)
    ELSE
    LET state == ld[1]
        balances == HamtLoad(state.balances)
        sender_bal == BalanceOrZero(balances, caller)
        read == <<"sself::root", "get_cbor", "Hamt::load", "caller", "Hamt::get">>
        res == resolve_address(params.recipient)
    IN
    IF InsufficientBalance(sender_bal, params.amount)
    THEN Outcome("USR_INSUFFICIENT_FUNDS", pre, read)
    ELSE IF res = None \/ SendToSelf(caller, res[1])
    THEN Outcome("USR_ILLEGAL_ARGUMENT", pre, read \o <<"resolve_address">>)
    ELSE
    LET set1 == HamtSet(balances, caller, SenderBalAfter(sender_bal, params.amount))
        state2 == [state EXCEPT !.balances = HamtFlush(set1)]
    IN Outcome("OK", Some(Cid(Serialize(state2))),
               read \o <<"resolve_address", "Hamt::get", "Hamt::set", "Hamt::flush",
                         "put_cbor", "sself::set_root", "Hamt::set">>)

\* a transfer that resolves the recipient and forbids sends to self before it
\* looks at the sender's funds
transfer_ResolveFirst(caller, params, pre) ==
    LET ld == State_load(pre) IN
    IF ld = None
    THEN Outcome("USR_ILLEGAL_STATE", pre, <<"sself::root">>)
    ELSE
    LET state == ld[1]
        balances == HamtLoad(state.balances)
        sender_bal == BalanceOrZero(balances, caller)
        read == <<"sself::root", "get_cbor", "Hamt::load", "caller", "resolve_address">>
        res == resolve_address(params.recipient)
    IN
    IF res = None \/ SendToSelf(caller, res[1])
    THEN Outcome("USR_ILLEGAL_ARGUMENT", pre, read)
    ELSE IF InsufficientBalance(sender_bal, params.amount)
    THEN Outcome("USR_INSUFFICIENT_FUNDS", pre, read \o <<"Hamt::get">>)
    ELSE
    LET recipient_bal == BalanceOrZero(balances, res[1])
        set1 == HamtSet(balances, caller, SenderBalAfter(sender_bal, params.amount))
        set2 == HamtSet(set1, res[1], RecipientBalAfter(recipient_bal, params.amount))
        state2 == [state EXCEPT !.balances = HamtFlush(set2)]
    IN Outcome("OK", Some(Cid(Serialize(state2))),
               read \o <<"Hamt::get", "Hamt::get", "Hamt::set", "Hamt::set",
                         "Hamt::flush", "put_cbor", "sself::set_root">>)

\* transfer
transfer(caller, params, pre) ==
    LET ld == State_load(pre) IN
    IF ld = None
    THEN Outcome("USR_ILLEGAL_STATE", pre, <<"sself::root">>)
    ELSE
    LET state == ld[1]
        balances == HamtLoad(state.balances)
        sender_id == caller
        sender_bal == BalanceOrZero(balances, sender_id)
        read == <<"sself::root", "get_cbor", "Hamt::load", "caller", "Hamt::get">>
    IN
    IF InsufficientBalance(sender_bal, params.amount)
    THEN Outcome("USR_INSUFFICIENT_FUNDS", pre, read)
    ELSE
    LET res == resolve_address(params.recipient) IN
    IF res = None
    THEN Outcome("USR_ILLEGAL_ARGUMENT", pre, read \o <<"resolve_address">>)
    ELSE
    LET recipient_id == res[1] IN
    IF SendToSelf(sender_id, recipient_id)
    THEN Outcome("USR_ILLEGAL_ARGUMENT", pre, read \o <<"resolve_address">>)
    ELSE
    LET recipient_bal == BalanceOrZero(balances, recipient_id)
        new_sender == SenderBalAfter(sender_bal, params.amount)
        new_recipient == RecipientBalAfter(recipient_bal, params.amount)
        set1 == HamtSet(balances, sender_id, new_sender)
        set2 == HamtSet(set1, recipient_id, new_recipient)
        cid == HamtFlush(set2)
        state2 == [state EXCEPT !.balances = cid]
    IN Outcome("OK", Some(Cid(Serialize(state2))),
               read \o <<"resolve_address", "Hamt::get", "Hamt::set", "Hamt::set",
                         "Hamt::flush", "put_cbor", "sself::set_root">>)

\* a dispatch with the selectors of mint and transfer exchanged
invoke_Swapped(method, caller, params, pre) ==
    IF method \in {1, 2, 3} /\ params = BadParams
    THEN Outcome("USR_SERIALIZATION", pre, <<"method_number", "params_raw">>)
    ELSE IF method = 1 THEN constructor(caller, params, pre)
    ELSE IF method = 2 THEN transfer(caller, params, pre)
    ELSE IF method = 3 THEN mint(caller, params, pre)
    ELSE Outcome("USR_UNHANDLED_MESSAGE", pre, <<"method_number">>)

\* invoke: decode the parameters, dispatch on the method number
invoke(method, caller, params, pre) ==
    IF method \in {1, 2, 3} /\ params = BadParams
    THEN Outcome("USR_SERIALIZATION", pre, <<"method_number", "params_raw">>)
    ELSE IF method = 1 THEN constructor(caller, params, pre)
    ELSE IF method = 2 THEN mint(caller, params, pre)
    ELSE IF method = 3 THEN transfer(caller, params, pre)
    ELSE Outcome("USR_UNHANDLED_MESSAGE", pre, <<"method_number">>)

----------------------------------------------------------------------------
(* Reading a root *)

Initialized(rt) == State_load(rt) # None
StateOf(rt) == State_load(rt)[1]
BalancesOf(rt) == IF Initialized(rt) THEN HamtLoad(StateOf(rt).balances) ELSE HamtNew
BalanceOf(rt, id) == BalanceOrZero(BalancesOf(rt), id)

RECURSIVE SumOver(_, _)
SumOver(map, keys) ==
    IF keys = {} THEN 0
    ELSE LET k == CHOOSE x \in keys : TRUE IN map[k] + SumOver(map, keys \ {k})
TotalSupply(rt) == SumOver(BalancesOf(rt), DOMAIN BalancesOf(rt))

\* the model's bound on the balances it explores
InBounds(rt) ==
    LET map == BalancesOf(rt) IN
    \A k \in DOMAIN map : map[k] >= 0 - MaxBal /\ map[k] <= MaxBal

----------------------------------------------------------------------------
(* The state machine *)

\* the record of a call that ended with outcome `out`
Ended(method, caller, params, pre, out) ==
    [method |-> method, caller |-> caller, params |-> params,
     pre |-> pre, code |-> out.code, effects |-> out.effects]

Init ==
    /\ root = None
    /\ last = [method |-> 0, caller |-> 0, params |-> BadParams,
               pre |-> None, code |-> "OK", effects |-> <<>>]

Construct ==
    \E caller \in ActorIDs : \E params \in ConstructorParamsSet \cup {BadParams} :
        LET out == invoke(1, caller, params, root) IN
        /\ root' = out.root
        /\ last' = Ended(1, caller, params, root, out)

Mint ==
    \E caller \in ActorIDs : \E params \in TransferParamsSet \cup {BadParams} :
        LET out == invoke(2, caller, params, root) IN
        /\ root' = out.root
        /\ last' = Ended(2, caller, params, root, out)

Transfer ==
    \E caller \in ActorIDs : \E params \in TransferParamsSet \cup {BadParams} :
        LET out == invoke(3, caller, params, root) IN
        /\ InBounds(out.root)
        /\ root' = out.root
        /\ last' = Ended(3, caller, params, root, out)

Unhandled ==
    \E caller \in ActorIDs : \E method \in {0, 4} :
        LET out == invoke(method, caller, BadParams, root) IN
        /\ root' = out.root
        /\ last' = Ended(method, caller, BadParams, root, out)

Next == Construct \/ Mint \/ Transfer \/ Unhandled

Spec == Init /\ [][Next]_vars

----------------------------------------------------------------------------
(* What the claims speak of: the call that ended last *)

Decoded == last.params # BadParams
Aborted == last.code # "OK"
LastConstruct == last.method = 1 /\ Decoded
LastMint == last.method = 2 /\ Decoded
LastTransfer == last.method = 3 /\ Decoded
Made(call) == \E i \in 1..Len(last.effects) : last.effects[i] = call

\* the recipient of the last transfer, where it resolves
RecipientResolves == resolve_address(last.params.recipient) # None
RecipientId == resolve_address(last.params.recipient)[1]
\* the owner of the state the last call loaded, where it resolves
OwnerResolves == resolve_address(StateOf(last.pre).owner) # None
OwnerId == resolve_address(StateOf(last.pre).owner)[1]

----------------------------------------------------------------------------
\* C1: a transfer on an initialized actor to a recipient that resolves to another
\* identifier than the caller, with the caller's balance (absent = 0) >= amount,
\* succeeds; the caller's new balance is the old minus amount, the recipient's
\* the old plus amount, and the sum of the two is as before.
C1_TransferMovesAmount ==
    (/\ LastTransfer
     /\ Initialized(last.pre)
     /\ RecipientResolves
     /\ RecipientId # last.caller
     /\ BalanceOf(last.pre, last.caller) >= last.params.amount)
    => /\ last.code = "OK"
       /\ BalanceOf(root, last.caller)
            = BalanceOf(last.pre, last.caller) - last.params.amount
       /\ BalanceOf(root, RecipientId)
            = BalanceOf(last.pre, RecipientId) + last.params.amount
       /\ BalanceOf(root, last.caller) + BalanceOf(root, RecipientId)
            = BalanceOf(last.pre, last.caller) + BalanceOf(last.pre, RecipientId)

\* a transfer of a positive amount to a recipient that already held a balance
C1_Witness ==
    /\ LastTransfer
    /\ last.code = "OK"
    /\ last.params.amount = 1
    /\ BalanceOf(last.pre, RecipientId) # 0

\* C2: in every committed state every balance stored in the balance map is >= 0.
C2_NoNegativeBalance ==
    \A k \in DOMAIN BalancesOf(root) : BalancesOf(root)[k] >= 0

\* C3: a mint by the resolved owner on an initialized actor succeeds and commits
\* a state in which the owner's balance is its previous balance plus
\* params.amount, under a new state root (stated for the positive amounts).
C3_MintCreditsOwner ==
    (/\ LastMint
     /\ Initialized(last.pre)
     /\ OwnerResolves
     /\ OwnerId = last.caller
     /\ last.params.amount > 0)
    => /\ last.code = "OK"
       /\ BalanceOf(root, OwnerId) = BalanceOf(last.pre, OwnerId) + last.params.amount
       /\ root # last.pre

\* C4: a mint by the owner that would push the sum of all balances above
\* max_supply fails with InsufficientSupplyCap and leaves the root unchanged.
C4_MintRespectsCap ==
    (/\ LastMint
     /\ Initialized(last.pre)
     /\ OwnerResolves
     /\ OwnerId = last.caller
     /\ TotalSupply(last.pre) + last.params.amount > StateOf(last.pre).max_supply)
    => /\ last.code = "USR_INSUFFICIENT_SUPPLY_CAP"
       /\ root = last.pre

\* C5: a transfer whose amount is greater than the caller's balance (absent = 0)
\* in the state it loaded fails with InsufficientFunds and the state root after
\* the call is the root before it.
C5_InsufficientFunds ==
    (/\ LastTransfer
     /\ Initialized(last.pre)
     /\ last.params.amount > BalanceOf(last.pre, last.caller))
    => /\ last.code = "USR_INSUFFICIENT_FUNDS"
       /\ root = last.pre

\* a transfer refused for lack of funds by a caller that holds some
C5_Witness ==
    /\ LastTransfer
    /\ last.code = "USR_INSUFFICIENT_FUNDS"
    /\ BalanceOf(last.pre, last.caller) = 1
    /\ root = last.pre

\* C6 as stated: every transfer (on an initialized actor) whose recipient
\* resolves to the caller fails with InvalidArgument, whatever balance and amount.
C6_SelfTransferAlwaysInvalidArgument ==
    (/\ LastTransfer
     /\ Initialized(last.pre)
     /\ RecipientResolves
     /\ RecipientId = last.caller)
    => last.code = "USR_ILLEGAL_ARGUMENT"

\* C6 as amended: a transfer on an initialized actor whose recipient resolves to
\* the caller always fails and leaves the root unchanged: with InsufficientFunds
\* when the caller's balance is below the amount, with InvalidArgument otherwise.
C6_SelfTransferFails ==
    (/\ LastTransfer
     /\ Initialized(last.pre)
     /\ RecipientResolves
     /\ RecipientId = last.caller)
    => /\ root = last.pre
       /\ last.code = IF BalanceOf(last.pre, last.caller) < last.params.amount
                      THEN "USR_INSUFFICIENT_FUNDS"
                      ELSE "USR_ILLEGAL_ARGUMENT"

\* a self-transfer of an amount the caller holds, refused
C6_Witness ==
    /\ LastTransfer
    /\ RecipientResolves
    /\ RecipientId = last.caller
    /\ last.params.amount = 1
    /\ BalanceOf(last.pre, last.caller) >= 1
    /\ last.code = "USR_ILLEGAL_ARGUMENT"

\* C7: every successful transfer leaves the sum of all balances of the balance
\* map equal to the sum before the call.
C7_TransferConservesSupply ==
    (LastTransfer /\ last.code = "OK")
    => SumOver(BalancesOf(root), DOMAIN BalancesOf(root))
         = SumOver(BalancesOf(last.pre), DOMAIN BalancesOf(last.pre))

\* a successful transfer of a non-zero amount in a map of three accounts
C7_Witness ==
    /\ LastTransfer
    /\ last.code = "OK"
    /\ last.params.amount # 0
    /\ Cardinality(DOMAIN BalancesOf(last.pre)) = 3

\* C8: a call (construct, mint, transfer, unknown selector) that ends in an
\* abort leaves the host's state root as it was before the call, unset included,
\* and has not called set_root.
C8_AbortKeepsRoot ==
    Aborted => (root = last.pre /\ ~Made("sself::set_root"))

\* a transfer that aborts at its last check, on an actor that holds balances
C8_Witness ==
    /\ Aborted
    /\ last.method = 3
    /\ last.code = "USR_ILLEGAL_ARGUMENT"
    /\ DOMAIN BalancesOf(root) # {}
    /\ root = last.pre

\* C9: a mint on an initialized actor whose owner address resolves, by a caller
\* other than the resolved owner, fails with Forbidden and leaves the root unchanged.
C9_MintByNonOwnerForbidden ==
    (/\ LastMint
     /\ Initialized(last.pre)
     /\ OwnerResolves
     /\ OwnerId # last.caller)
    => /\ last.code = "USR_FORBIDDEN"
       /\ root = last.pre

\* a mint by the init actor, which is not the owner, refused
C9_Witness ==
    /\ LastMint
    /\ Initialized(last.pre)
    /\ OwnerResolves
    /\ last.caller = INIT_ACTOR_ADDR
    /\ last.code = "USR_FORBIDDEN"

\* C10: a construct call by a caller other than the init actor (actor id 1) fails
\* with Forbidden and sets no root: an uninitialized actor stays uninitialized,
\* an initialized actor keeps its root.
C10_ConstructByNonInitForbidden ==
    (LastConstruct /\ last.caller # INIT_ACTOR_ADDR)
    => /\ last.code = "USR_FORBIDDEN"
       /\ root = last.pre
       /\ ~Made("sself::set_root")

\* a construct by the owner account on an initialized actor, refused
C10_Witness ==
    /\ LastConstruct
    /\ last.caller # INIT_ACTOR_ADDR
    /\ last.code = "USR_FORBIDDEN"
    /\ Initialized(root)

\* C11: construct has no once-only guard: a construct by the init actor on an
\* already initialized actor succeeds and commits a fresh state whose balance
\* map is empty and whose name, symbol, max_supply and owner are the new parameters'.
C11_ReconstructResets ==
    (LastConstruct /\ last.caller = INIT_ACTOR_ADDR /\ Initialized(last.pre))
    => /\ last.code = "OK"
       /\ Initialized(root)
       /\ DOMAIN BalancesOf(root) = {}
       /\ StateOf(root).name = last.params.name
       /\ StateOf(root).symbol = last.params.symbol
       /\ StateOf(root).max_supply = last.params.max_supply
       /\ StateOf(root).owner = last.params.owner

\* a second construct, with another name and owner, on an actor that held balances
C11_Witness ==
    /\ LastConstruct
    /\ last.code = "OK"
    /\ Initialized(last.pre)
    /\ DOMAIN BalancesOf(last.pre) # {}
    /\ StateOf(last.pre).name # last.params.name
    /\ StateOf(last.pre).owner # last.params.owner
    /\ DOMAIN BalancesOf(root) = {}

\* C12: dispatch routes selector 1 to construct, 2 to mint and 3 to transfer (the
\* call ends as that handler ends on the decoded parameters); any other selector
\* aborts with UnhandledMethod and changes no state.
C12_Dispatch ==
    /\ (last.method = 1 /\ Decoded) =>
          /\ last.code = constructor(last.caller, last.params, last.pre).code
          /\ root = constructor(last.caller, last.params, last.pre).root
    /\ (last.method = 2 /\ Decoded) =>
          /\ last.code = mint(last.caller, last.params, last.pre).code
          /\ root = mint(last.caller, last.params, last.pre).root
    /\ (last.method = 3 /\ Decoded) =>
          /\ last.code = transfer(last.caller, last.params, last.pre).code
          /\ root = transfer(last.caller, last.params, last.pre).root
    /\ (last.method \notin {1, 2, 3} /\ last.effects # <<>>) =>
          /\ last.code = "USR_UNHANDLED_MESSAGE"
          /\ root = last.pre

\* an unknown selector refused on an actor that holds balances
C12_Witness ==
    /\ last.method = 4
    /\ last.code = "USR_UNHANDLED_MESSAGE"
    /\ DOMAIN BalancesOf(root) # {}
    /\ root = last.pre

\* the position of the first host call `call` of the last call, 0 if not made
FirstAt(call) ==
    IF Made(call)
    THEN CHOOSE i \in 1..Len(last.effects) :
            /\ last.effects[i] = call
            /\ \A j \in 1..(i - 1) : last.effects[j] # call
    ELSE 0
\* the number of host calls `call` the last call made
Count(call) == Cardinality({i \in 1..Len(last.effects) : last.effects[i] = call})

\* C13: the state root is the single commit point of a transfer.  A transfer
\* that calls set_root does so once, as its last host call, after both balance
\* writes, the flush and the store of the new state; and the root the host holds
\* after a transfer is either the root before it (none of the two writes) or
\* references a map that holds both the sender's and the recipient's new
\* balance, never exactly one of them.
C13_RootIsCommitPoint ==
    LastTransfer =>
       /\ Made("sself::set_root") =>
             /\ Count("sself::set_root") = 1
             /\ last.effects[Len(last.effects)] = "sself::set_root"
             /\ Count("Hamt::set") = 2
             /\ FirstAt("Hamt::set") < FirstAt("Hamt::flush")
             /\ FirstAt("Hamt::flush") < FirstAt("put_cbor")
             /\ FirstAt("put_cbor") < FirstAt("sself::set_root")
       /\ \/ root = last.pre
          \/ /\ RecipientResolves
             /\ {last.caller, RecipientId} \subseteq DOMAIN BalancesOf(root)
             /\ BalancesOf(root)[last.caller]
                  = BalanceOf(last.pre, last.caller) - last.params.amount
             /\ BalancesOf(root)[RecipientId]
                  = BalanceOf(last.pre, RecipientId) + last.params.amount

\* a committed transfer of a non-zero amount: both writes are in the new root
C13_Witness ==
    /\ LastTransfer
    /\ Made("sself::set_root")
    /\ root # last.pre
    /\ last.params.amount # 0
    /\ BalancesOf(root)[last.caller] # BalanceOf(last.pre, last.caller)
    /\ BalancesOf(root)[RecipientId] # BalanceOf(last.pre, RecipientId)

\* C14: the checks of a transfer run in the order load state, load map, read
\* sender balance, funds check, recipient resolution, self-transfer check, and
\* the first that fails decides the exit code: with balance >= amount an
\* unresolvable recipient gives InvalidArgument, and with balance < amount the
\* call gives InsufficientFunds whether or not the recipient resolves.
C14_CheckOrder ==
    LastTransfer =>
        last.code =
            IF ~Initialized(last.pre) THEN "USR_ILLEGAL_STATE"
            ELSE IF BalanceOf(last.pre, last.caller) < last.params.amount
                 THEN "USR_INSUFFICIENT_FUNDS"
            ELSE IF ~RecipientResolves THEN "USR_ILLEGAL_ARGUMENT"
            ELSE IF RecipientId = last.caller THEN "USR_ILLEGAL_ARGUMENT"
            ELSE "OK"

\* a transfer above the caller's balance to a recipient that does not resolve
C14_Witness ==
    /\ LastTransfer
    /\ Initialized(last.pre)
    /\ ~RecipientResolves
    /\ BalanceOf(last.pre, last.caller) < last.params.amount
    /\ last.code = "USR_INSUFFICIENT_FUNDS"

\* C15: a successful transfer changes the balance-map entries of the sender and
\* the recipient only: for every other account a lookup returns the same value,
\* or the same absence, before and after the call.
C15_TransferFrame ==
    (LastTransfer /\ last.code = "OK")
    => \A k \in ActorIDs \ {last.caller, RecipientId} :
          HamtGet(BalancesOf(root), k) = HamtGet(BalancesOf(last.pre), k)

\* a transfer of a non-zero amount beside a third account that holds a balance
C15_Witness ==
    /\ LastTransfer
    /\ last.code = "OK"
    /\ last.params.amount # 0
    /\ \E k \in ActorIDs \ {last.caller, RecipientId} :
          /\ HamtGet(BalancesOf(last.pre), k) # None
          /\ BalanceOf(last.pre, k) # 0
          /\ BalanceOf(root, k) = BalanceOf(last.pre, k)

\* C16: mint and transfer never change name, symbol, max_supply or owner: after
\* a successful mint or transfer these four fields of the committed state are
\* those of the state the call loaded.
C16_MetadataFrame ==
    (/\ last.method \in {2, 3}
     /\ Decoded
     /\ last.code = "OK")
    => /\ Initialized(root)
       /\ StateOf(root).name = StateOf(last.pre).name
       /\ StateOf(root).symbol = StateOf(last.pre).symbol
       /\ StateOf(root).max_supply = StateOf(last.pre).max_supply
       /\ StateOf(root).owner = StateOf(last.pre).owner

\* a transfer that committed a new balances root under the old metadata
C16_Witness ==
    /\ LastTransfer
    /\ last.code = "OK"
    /\ StateOf(root).balances # StateOf(last.pre).balances
    /\ StateOf(root).name = StateOf(last.pre).name
    /\ StateOf(root).owner = StateOf(last.pre).owner

\* the keys the last call added to the balance map
NewKeys == (DOMAIN BalancesOf(root)) \ (DOMAIN BalancesOf(last.pre))

\* C17 as stated: no call materializes an entry for a previously absent account
\* by writing the value zero.
C17_NoZeroMaterialized ==
    \A k \in NewKeys : BalancesOf(root)[k] # 0

\* C17 as amended: a key becomes present in the balance map only by a successful
\* transfer, as its sender or its recipient, and a successful transfer leaves
\* both present whatever the values written: a previously absent sender is
\* entered with -amount and a previously absent recipient with amount, zero
\* included.
C17_KeysMaterializedByTransfer ==
    /\ NewKeys # {} => (LastTransfer /\ last.code = "OK")
    /\ (LastTransfer /\ last.code = "OK") =>
          /\ {last.caller, RecipientId} \subseteq DOMAIN BalancesOf(root)
          /\ NewKeys \subseteq {last.caller, RecipientId}
          /\ last.caller \in NewKeys =>
                BalancesOf(root)[last.caller] = 0 - last.params.amount
          /\ RecipientId \in NewKeys =>
                BalancesOf(root)[RecipientId] = last.params.amount

\* a transfer of amount zero between two accounts that had no entry
C17_Witness ==
    /\ LastTransfer
    /\ last.code = "OK"
    /\ last.params.amount = 0
    /\ NewKeys = {last.caller, RecipientId}
    /\ BalancesOf(root)[last.caller] = 0
    /\ BalancesOf(root)[RecipientId] = 0

\* C18: on an actor on which no construct has succeeded (no state behind the
\* root) every mint and every transfer aborts with IllegalState, having made no
\* host call but the read of the root (no authorization or balance check), and
\* the actor stays uninitialized; only a successful construct initializes it.
C18_UninitializedAborts ==
    /\ (last.method \in {2, 3} /\ Decoded /\ last.pre = None) =>
          /\ last.code = "USR_ILLEGAL_STATE"
          /\ last.effects = <<"sself::root">>
          /\ root = None
    /\ (last.pre = None /\ root # None) =>
          (LastConstruct /\ last.code = "OK" /\ last.caller = INIT_ACTOR_ADDR)

\* a transfer of amount zero by the init actor on an actor without state, refused
C18_Witness ==
    /\ LastTransfer
    /\ last.pre = None
    /\ root = None
    /\ last.params.amount = 0
    /\ last.code = "USR_ILLEGAL_STATE"

\* C19: in every committed state, after any sequence of construct, mint and
\* transfer calls, the sum of all balances of the balance map is zero.
C19_SupplyIsZero ==
    TotalSupply(root) = 0

\* balances other than zero are in the map, after a mint by the owner that ended OK
C19_Witness ==
    /\ LastMint
    /\ last.code = "OK"
    /\ last.params.amount > 0
    /\ \E k \in DOMAIN BalancesOf(root) : BalancesOf(root)[k] > 0
    /\ TotalSupply(root) = 0

====
